---------------------------- MODULE Spec2Model ----------------------------
(***************************************************************************)
(* A model of vEdge_IP_Report: get_vEdgeAddresses.py (the report pipeline) *)
(* and store_creds.py (the obscured credential file).                      *)
(*                                                                         *)
(* Text is a sequence of one-character strings, so that the parsing and    *)
(* encoding the program does (ipaddress.ip_network, zlib, base64, strip)   *)
(* are computed character by character, as the libraries compute them.     *)
(***************************************************************************)
EXTENDS Integers, Sequences, FiniteSets, TLC

(***************************************************************************)
(* Text helpers (Python str methods used by the program and its libraries) *)
(***************************************************************************)

Digits == {"0", "1", "2", "3", "4", "5", "6", "7", "8", "9"}

HexLetters == {"a", "b", "c", "d", "e", "f", "A", "B", "C", "D", "E", "F"}

DigitVal(c) ==
    CASE c = "0" -> 0 [] c = "1" -> 1 [] c = "2" -> 2 [] c = "3" -> 3
      [] c = "4" -> 4 [] c = "5" -> 5 [] c = "6" -> 6 [] c = "7" -> 7
      [] c = "8" -> 8 [] c = "9" -> 9
      [] c \in {"a", "A"} -> 10 [] c \in {"b", "B"} -> 11
      [] c \in {"c", "C"} -> 12 [] c \in {"d", "D"} -> 13
      [] c \in {"e", "E"} -> 14 [] c \in {"f", "F"} -> 15

\* str.split(sep): the pieces of s between the occurrences of sep.
RECURSIVE SplitFrom(_, _, _, _)
SplitFrom(s, sep, i, cur) ==
    IF i > Len(s) THEN <<cur>>
    ELSE IF s[i] = sep THEN <<cur>> \o SplitFrom(s, sep, i + 1, <<>>)
    ELSE SplitFrom(s, sep, i + 1, Append(cur, s[i]))

split(s, sep) == SplitFrom(s, sep, 1, <<>>)

IsIn(c, s) == \E i \in 1..Len(s) : s[i] = c

\* int(s, base) of a string of digits, saturating at 100000 (every caller
\* rejects a value that large).
RECURSIVE IntFrom(_, _, _, _)
IntFrom(s, base, i, acc) ==
    IF i > Len(s) THEN acc
    ELSE IF acc >= 100000 THEN 100000
    ELSE IntFrom(s, base, i + 1, acc * base + DigitVal(s[i]))

int(s, base) == IntFrom(s, base, 1, 0)

RECURSIVE Pow2(_)
Pow2(k) == IF k = 0 THEN 1 ELSE 2 * Pow2(k - 1)

Min(a, b) == IF a < b THEN a ELSE b

Max(a, b) == IF a > b THEN a ELSE b

(***************************************************************************)
(* ipaddress.ip_network(address, strict=False) of the standard library.    *)
(* An address is kept as its groups (4 octets, or 8 hextets): the 32- and  *)
(* 128-bit integers of the library are too wide for the checker's          *)
(* integers.  A failed parse is the empty sequence.                        *)
(***************************************************************************)

IPV4LENGTH == 32

IPV6LENGTH == 128

\* IPv4Address._parse_octet: decimal, 1 to 3 digits, no leading zero, <= 255.
parse_octet(o) ==
    IF Len(o) = 0 \/ (\E i \in 1..Len(o) : o[i] \notin Digits) THEN -1
    ELSE IF Len(o) > 3 THEN -1
    ELSE IF o # <<"0">> /\ o[1] = "0" THEN -1
    ELSE IF int(o, 10) > 255 THEN -1
    ELSE int(o, 10)

\* IPv4Address._ip_int_from_string: exactly four octets separated by dots.
v4_from_string(ip_str) ==
    LET octets == split(ip_str, ".") IN
    IF Len(ip_str) = 0 \/ Len(octets) # 4 THEN <<>>
    ELSE IF \E i \in 1..4 : parse_octet(octets[i]) = -1 THEN <<>>
    ELSE [i \in 1..4 |-> parse_octet(octets[i])]

\* IPv6Address._parse_hextet: 1 to 4 hexadecimal digits.
parse_hextet(h) ==
    IF \E i \in 1..Len(h) : h[i] \notin (Digits \cup HexLetters) THEN -1
    ELSE IF Len(h) > 4 \/ Len(h) = 0 THEN -1
    ELSE int(h, 16)

\* The positions 2..Len-1 of parts that are empty: a "::" inside.
SkipIndexes(parts) == {i \in 2..(Len(parts) - 1) : parts[i] = <<>>}

\* IPv6Address._ip_int_from_string, after an IPv4-style suffix was replaced
\* by its two hextets.
v6_from_parts(parts) ==
    IF Len(parts) > 9 \/ Cardinality(SkipIndexes(parts)) > 1 THEN <<>>
    ELSE IF SkipIndexes(parts) # {} THEN
        LET skip == CHOOSE i \in SkipIndexes(parts) : TRUE
            hi0 == skip - 1
            lo0 == Len(parts) - skip
            hi == IF parts[1] = <<>> THEN hi0 - 1 ELSE hi0
            lo == IF parts[Len(parts)] = <<>> THEN lo0 - 1 ELSE lo0
            skipped == 8 - (hi + lo)
            groups == [i \in 1..8 |->
                         IF i <= hi THEN parse_hextet(parts[i])
                         ELSE IF i <= hi + skipped THEN 0
                         ELSE parse_hextet(parts[Len(parts) - (8 - i)])]
        IN  IF (parts[1] = <<>> /\ hi # 0)
               \/ (parts[Len(parts)] = <<>> /\ lo # 0)
               \/ skipped < 1 THEN <<>>
            ELSE IF \E i \in 1..8 : groups[i] = -1 THEN <<>>
            ELSE groups
    ELSE IF Len(parts) # 8 \/ parts[1] = <<>> \/ parts[8] = <<>> THEN <<>>
    ELSE IF \E i \in 1..8 : parse_hextet(parts[i]) = -1 THEN <<>>
    ELSE [i \in 1..8 |-> parse_hextet(parts[i])]

HexChar(d) ==
    CASE d = 0 -> "0" [] d = 1 -> "1" [] d = 2 -> "2" [] d = 3 -> "3"
      [] d = 4 -> "4" [] d = 5 -> "5" [] d = 6 -> "6" [] d = 7 -> "7"
      [] d = 8 -> "8" [] d = 9 -> "9" [] d = 10 -> "a" [] d = 11 -> "b"
      [] d = 12 -> "c" [] d = 13 -> "d" [] d = 14 -> "e" [] d = 15 -> "f"

\* '%x' % n
RECURSIVE ToHex(_)
ToHex(n) == IF n < 16 THEN <<HexChar(n)>>
            ELSE Append(ToHex(n \div 16), HexChar(n % 16))

\* IPv6Address._ip_int_from_string: at least three parts; an IPv4-style
\* last part becomes two hextets.
v6_from_string(ip_str) ==
    LET parts == split(ip_str, ":")
        last == parts[Len(parts)]
        tail == v4_from_string(last)
    IN  IF Len(ip_str) = 0 \/ Len(parts) < 3 THEN <<>>
        ELSE IF IsIn(".", last) THEN
            IF tail = <<>> THEN <<>>
            ELSE v6_from_parts(SubSeq(parts, 1, Len(parts) - 1)
                               \o <<ToHex(tail[1] * 256 + tail[2]),
                                    ToHex(tail[3] * 256 + tail[4])>>)
        ELSE v6_from_parts(parts)

\* IPv6Address.__init__ for a string: an optional "%scope" suffix, which
\* must be non-empty and hold no further "%".
v6_address(addr_str) ==
    LET cut == split(addr_str, "%") IN
    IF Len(cut) = 1 THEN v6_from_string(addr_str)
    ELSE IF Len(cut) > 2 \/ cut[2] = <<>> THEN <<>>
    ELSE v6_from_string(cut[1])

\* _prefix_from_prefix_string: decimal digits, at most the address width.
prefix_from_prefix_string(p, width) ==
    IF Len(p) = 0 \/ (\E i \in 1..Len(p) : p[i] \notin Digits) THEN -1
    ELSE IF int(p, 10) > width THEN -1
    ELSE int(p, 10)

\* The number of leading one bits of an octet that is a run of ones
\* followed by zeros; -1 for any other octet.
OnesOfOctet(o) ==
    IF \E k \in 0..8 : o = 256 - Pow2(8 - k)
    THEN CHOOSE k \in 0..8 : o = 256 - Pow2(8 - k)
    ELSE -1

\* _prefix_from_ip_int: the mask must be ones followed by zeros.
prefix_from_mask(m) ==
    IF \E i \in 1..4 : OnesOfOctet(m[i]) = -1 THEN -1
    ELSE IF \E i \in 1..3 : m[i] # 255 /\ m[i + 1] # 0 THEN -1
    ELSE OnesOfOctet(m[1]) + OnesOfOctet(m[2])
         + OnesOfOctet(m[3]) + OnesOfOctet(m[4])

\* IPv4Network._prefix_from_ip_string: a dotted netmask, else a hostmask.
prefix_from_ip_string(p) ==
    LET m == v4_from_string(p) IN
    IF m = <<>> THEN -1
    ELSE IF prefix_from_mask(m) # -1 THEN prefix_from_mask(m)
    ELSE prefix_from_mask([i \in 1..4 |-> 255 - m[i]])

\* IPv4Network._make_netmask of the text after the "/".
make_netmask_v4(p) ==
    IF prefix_from_prefix_string(p, IPV4LENGTH) # -1
    THEN prefix_from_prefix_string(p, IPV4LENGTH)
    ELSE prefix_from_ip_string(p)

\* address & netmask, group by group (w bits a group).
NetworkOf(groups, prefixlen, w) ==
    [i \in 1..Len(groups) |->
        LET keep == Max(0, Min(w, prefixlen - w * (i - 1)))
        IN  (groups[i] \div Pow2(w - keep)) * Pow2(w - keep)]

\* address | hostmask: the last address of the network.
BroadcastOf(groups, prefixlen, w) ==
    [i \in 1..Len(groups) |->
        LET keep == Max(0, Min(w, prefixlen - w * (i - 1)))
        IN  (groups[i] \div Pow2(w - keep)) * Pow2(w - keep)
            + Pow2(w - keep) - 1]

ValueError == [version |-> 0, network_address |-> <<>>, prefixlen |-> 0]

\* IPv4Network(address, strict=False): at most one "/", then the address
\* and the mask; host bits beyond the mask are cleared.
IPv4Network(address) ==
    LET args == split(address, "/")
        addr == v4_from_string(args[1])
        plen == IF Len(args) = 1 THEN IPV4LENGTH ELSE make_netmask_v4(args[2])
    IN  IF Len(args) > 2 \/ addr = <<>> \/ plen = -1 THEN ValueError
        ELSE [version |-> 4, network_address |-> NetworkOf(addr, plen, 8),
              prefixlen |-> plen]

\* IPv6Network(address, strict=False).
IPv6Network(address) ==
    LET args == split(address, "/")
        addr == v6_address(args[1])
        plen == IF Len(args) = 1 THEN IPV6LENGTH
                ELSE prefix_from_prefix_string(args[2], IPV6LENGTH)
    IN  IF Len(args) > 2 \/ addr = <<>> \/ plen = -1 THEN ValueError
        ELSE [version |-> 6, network_address |-> NetworkOf(addr, plen, 16),
              prefixlen |-> plen]

\* ipaddress.ip_network: IPv4 first, then IPv6, else ValueError.
ip_network(address) ==
    IF IPv4Network(address) # ValueError THEN IPv4Network(address)
    ELSE IPv6Network(address)

\* _IPv4Constants._private_networks
private_networks_v4 ==
    { [version |-> 4, network_address |-> <<0, 0, 0, 0>>, prefixlen |-> 8],
      [version |-> 4, network_address |-> <<10, 0, 0, 0>>, prefixlen |-> 8],
      [version |-> 4, network_address |-> <<127, 0, 0, 0>>, prefixlen |-> 8],
      [version |-> 4, network_address |-> <<169, 254, 0, 0>>, prefixlen |-> 16],
      [version |-> 4, network_address |-> <<172, 16, 0, 0>>, prefixlen |-> 12],
      [version |-> 4, network_address |-> <<192, 0, 0, 0>>, prefixlen |-> 29],
      [version |-> 4, network_address |-> <<192, 0, 0, 170>>, prefixlen |-> 31],
      [version |-> 4, network_address |-> <<192, 0, 2, 0>>, prefixlen |-> 24],
      [version |-> 4, network_address |-> <<192, 168, 0, 0>>, prefixlen |-> 16],
      [version |-> 4, network_address |-> <<198, 18, 0, 0>>, prefixlen |-> 15],
      [version |-> 4, network_address |-> <<198, 51, 100, 0>>, prefixlen |-> 24],
      [version |-> 4, network_address |-> <<203, 0, 113, 0>>, prefixlen |-> 24],
      [version |-> 4, network_address |-> <<240, 0, 0, 0>>, prefixlen |-> 4],
      [version |-> 4, network_address |-> <<255, 255, 255, 255>>,
       prefixlen |-> 32] }

\* _IPv6Constants._private_networks
private_networks_v6 ==
    { [version |-> 6, network_address |-> <<0, 0, 0, 0, 0, 0, 0, 1>>,
       prefixlen |-> 128],
      [version |-> 6, network_address |-> <<0, 0, 0, 0, 0, 0, 0, 0>>,
       prefixlen |-> 128],
      [version |-> 6, network_address |-> <<0, 0, 0, 0, 0, 65535, 0, 0>>,
       prefixlen |-> 96],
      [version |-> 6, network_address |-> <<256, 0, 0, 0, 0, 0, 0, 0>>,
       prefixlen |-> 64],
      [version |-> 6, network_address |-> <<8193, 0, 0, 0, 0, 0, 0, 0>>,
       prefixlen |-> 23],
      [version |-> 6, network_address |-> <<8193, 2, 0, 0, 0, 0, 0, 0>>,
       prefixlen |-> 48],
      [version |-> 6, network_address |-> <<8193, 3512, 0, 0, 0, 0, 0, 0>>,
       prefixlen |-> 32],
      [version |-> 6, network_address |-> <<8193, 16, 0, 0, 0, 0, 0, 0>>,
       prefixlen |-> 28],
      [version |-> 6, network_address |-> <<64512, 0, 0, 0, 0, 0, 0, 0>>,
       prefixlen |-> 7],
      [version |-> 6, network_address |-> <<65152, 0, 0, 0, 0, 0, 0, 0>>,
       prefixlen |-> 10] }

GroupBits(net) == IF net.version = 4 THEN 8 ELSE 16

\* address in network: (address & netmask) = network_address
InNetwork(groups, net) ==
    NetworkOf(groups, net.prefixlen, GroupBits(net)) = net.network_address

\* _BaseNetwork.is_private: the first and the last address of the network
\* lie in one private network.
is_private(net) ==
    \E priv \in (IF net.version = 4 THEN private_networks_v4
                 ELSE private_networks_v6) :
        /\ InNetwork(net.network_address, priv)
        /\ InNetwork(BroadcastOf(net.network_address, net.prefixlen,
                                 GroupBits(net)), priv)

(***************************************************************************)
(* Bytes and text.  A byte is a number in 0..255; bytes.decode('ascii')    *)
(* and str.encode('ascii') go through the ASCII table.                     *)
(***************************************************************************)

\* The printable ASCII characters, code 32 (space) to 126 (~); code 96 is
\* written by name, the parser holding no grave accent in a string.
Printable ==
    << " ", "!", "\"", "#", "$", "%", "&", "'", "(", ")", "*", "+",
       ",", "-", ".", "/", "0", "1", "2", "3", "4", "5", "6", "7",
       "8", "9", ":", ";", "<", "=", ">", "?", "@", "A", "B", "C",
       "D", "E", "F", "G", "H", "I", "J", "K", "L", "M", "N", "O",
       "P", "Q", "R", "S", "T", "U", "V", "W", "X", "Y", "Z", "[",
       "\\", "]", "^", "_", "(backtick)", "a", "b", "c", "d", "e", "f", "g",
       "h", "i", "j", "k", "l", "m", "n", "o", "p", "q", "r", "s",
       "t", "u", "v", "w", "x", "y", "z", "{", "|", "}", "~" >>

\* ord(c) of an ASCII character.
ord(c) ==
    IF c = "\n" THEN 10
    ELSE IF c = "\t" THEN 9
    ELSE IF c = "\r" THEN 13
    ELSE 31 + (CHOOSE i \in 1..Len(Printable) : Printable[i] = c)

\* chr(b) of an ASCII code.
chr(b) ==
    IF b = 10 THEN "\n"
    ELSE IF b = 9 THEN "\t"
    ELSE IF b = 13 THEN "\r"
    ELSE Printable[b - 31]

\* str.encode('ascii')
str_encode(text) == [i \in 1..Len(text) |-> ord(text[i])]

\* bytes.decode(): every byte the model's files hold is ASCII.
bytes_decode(bytes) == [i \in 1..Len(bytes) |-> chr(bytes[i])]

Whitespace == {" ", "\t", "\n", "\r"}

\* str.strip(): without its leading and trailing whitespace.
RECURSIVE lstrip(_)
lstrip(text) ==
    IF text # <<>> /\ Head(text) \in Whitespace THEN lstrip(Tail(text))
    ELSE text

RECURSIVE rstrip(_)
rstrip(text) ==
    IF text # <<>> /\ text[Len(text)] \in Whitespace
    THEN rstrip(SubSeq(text, 1, Len(text) - 1))
    ELSE text

strip(text) == rstrip(lstrip(text))

\* file.readlines(): the lines of the text, each with its "\n".
RECURSIVE ReadLinesFrom(_, _, _)
ReadLinesFrom(text, i, cur) ==
    IF i > Len(text) THEN (IF cur = <<>> THEN <<>> ELSE <<cur>>)
    ELSE IF text[i] = "\n"
    THEN <<Append(cur, "\n")>> \o ReadLinesFrom(text, i + 1, <<>>)
    ELSE ReadLinesFrom(text, i + 1, Append(cur, text[i]))

readlines(text) == ReadLinesFrom(text, 1, <<>>)

(***************************************************************************)
(* zlib.compress(data, 9) and zlib.decompress(data) of the standard        *)
(* library: a zlib stream is the header 78 DA, a deflate stream, and the   *)
(* Adler-32 checksum of the data.  deflate finds no repeated string in an  *)
(* input shorter than 5 bytes, so the stream of such an input is one       *)
(* fixed-Huffman block of literals.                                        *)
(***************************************************************************)

ADLER_BASE == 65521

\* The pair <<a, b>> of the Adler-32 checksum (b is its high half).
RECURSIVE AdlerFrom(_, _, _, _)
AdlerFrom(data, i, a, b) ==
    IF i > Len(data) THEN <<a, b>>
    ELSE AdlerFrom(data, i + 1, (a + data[i]) % ADLER_BASE,
                   (b + ((a + data[i]) % ADLER_BASE)) % ADLER_BASE)

\* The checksum as the four bytes that end the stream (big-endian).
adler32_bytes(data) ==
    LET ab == AdlerFrom(data, 1, 1, 0) IN
    <<ab[2] \div 256, ab[2] % 256, ab[1] \div 256, ab[1] % 256>>

\* The n low bits of code, most significant first (a Huffman code).
CodeBits(code, n) == [i \in 1..n |-> (code \div Pow2(n - i)) % 2]

\* The fixed Huffman code of a literal byte (RFC 1951, 3.2.6).
LiteralBits(b) ==
    IF b < 144 THEN CodeBits(48 + b, 8) ELSE CodeBits(400 + (b - 144), 9)

RECURSIVE LiteralsBits(_)
LiteralsBits(data) ==
    IF data = <<>> THEN <<>>
    ELSE LiteralBits(Head(data)) \o LiteralsBits(Tail(data))

\* Bits to bytes, the first bit in the lowest position, zero-padded.
RECURSIVE PackBits(_)
PackBits(bits) ==
    IF bits = <<>> THEN <<>>
    ELSE LET n == Min(8, Len(bits))
             byte == IF n = 0 THEN 0
                     ELSE LET v[i \in 0..n] ==
                                IF i = 0 THEN 0
                                ELSE v[i - 1] + bits[i] * Pow2(i - 1)
                          IN  v[n]
         IN  <<byte>> \o PackBits(SubSeq(bits, n + 1, Len(bits)))

\* The bits of the bytes, lowest position first.
RECURSIVE UnpackBits(_)
UnpackBits(bytes) ==
    IF bytes = <<>> THEN <<>>
    ELSE [i \in 1..8 |-> (Head(bytes) \div Pow2(i - 1)) % 2]
         \o UnpackBits(Tail(bytes))

\* One final block (BFINAL = 1), fixed Huffman codes (BTYPE = 01), the
\* literals, the end-of-block code (seven zero bits).
deflate(data) ==
    PackBits(<<1, 1, 0>> \o LiteralsBits(data) \o <<0, 0, 0, 0, 0, 0, 0>>)

zlib_compress(data) == <<120, 218>> \o deflate(data) \o adler32_bytes(data)

\* What a decoder returns: bytes, or the exception it raises.
Ok(bytes) == [kind |-> "ok", data |-> bytes]

Raise(exception) == [kind |-> exception, data |-> <<>>]

\* The value of the n bits from position p, most significant first.
BitsValue(bits, p, n) ==
    LET v[i \in 0..n] == IF i = 0 THEN 0 ELSE 2 * v[i - 1] + bits[p + i - 1]
    IN  v[n]

\* The symbols of a fixed-Huffman block from bit p on.  A length code (a
\* repeated string) is beyond the streams modelled here: "unmodelled".
RECURSIVE inflate_fixed(_, _, _)
inflate_fixed(bits, p, out) ==
    IF p + 6 > Len(bits) THEN [kind |-> "zlib.error", data |-> <<>>, p |-> p]
    ELSE IF BitsValue(bits, p, 7) = 0
    THEN [kind |-> "ok", data |-> out, p |-> p + 7]
    ELSE IF BitsValue(bits, p, 7) <= 23
    THEN [kind |-> "unmodelled", data |-> <<>>, p |-> p]
    ELSE IF p + 7 > Len(bits)
    THEN [kind |-> "zlib.error", data |-> <<>>, p |-> p]
    ELSE IF BitsValue(bits, p, 8) <= 191
    THEN inflate_fixed(bits, p + 8, Append(out, BitsValue(bits, p, 8) - 48))
    ELSE IF BitsValue(bits, p, 8) <= 199
    THEN [kind |-> "unmodelled", data |-> <<>>, p |-> p]
    ELSE IF p + 8 > Len(bits)
    THEN [kind |-> "zlib.error", data |-> <<>>, p |-> p]
    ELSE inflate_fixed(bits, p + 9,
                       Append(out, 144 + BitsValue(bits, p, 9) - 400))

\* The blocks of a deflate stream from bit p on.  Stored and
\* dynamic-Huffman blocks are beyond the streams modelled: "unmodelled".
RECURSIVE inflate(_, _, _)
inflate(bits, p, out) ==
    IF p + 2 > Len(bits) THEN [kind |-> "zlib.error", data |-> <<>>, p |-> p]
    ELSE IF bits[p + 1] = 1 /\ bits[p + 2] = 1
    THEN [kind |-> "zlib.error", data |-> <<>>, p |-> p]
    ELSE IF ~(bits[p + 1] = 1 /\ bits[p + 2] = 0)
    THEN [kind |-> "unmodelled", data |-> <<>>, p |-> p]
    ELSE LET r == inflate_fixed(bits, p + 3, out) IN
         IF r.kind # "ok" \/ bits[p] = 1 THEN r
         ELSE inflate(bits, r.p, r.data)

\* zlib.decompress: the header (deflate, window <= 32K, check bits, no
\* preset dictionary), the blocks, then the checksum of what they gave.
\* Bytes after the checksum are ignored.
zlib_decompress(data) ==
    IF Len(data) < 2 THEN Raise("zlib.error")
    ELSE IF data[1] % 16 # 8 \/ data[1] \div 16 > 7
            \/ (data[1] * 256 + data[2]) % 31 # 0
            \/ (data[2] \div 32) % 2 = 1
    THEN Raise("zlib.error")
    ELSE LET body == SubSeq(data, 3, Len(data))
             r == inflate(UnpackBits(body), 1, <<>>)
             used == (r.p - 1 + 7) \div 8
         IN  IF r.kind # "ok" THEN Raise(r.kind)
             ELSE IF Len(body) < used + 4 THEN Raise("zlib.error")
             ELSE IF SubSeq(body, used + 1, used + 4) # adler32_bytes(r.data)
             THEN Raise("zlib.error")
             ELSE Ok(r.data)

(***************************************************************************)
(* base64.urlsafe_b64encode and urlsafe_b64decode of the standard library. *)
(***************************************************************************)

\* The URL-safe alphabet: the character of each 6-bit value, from 0.
UrlSafeAlphabet ==
    << "A", "B", "C", "D", "E", "F", "G", "H", "I", "J", "K", "L", "M",
       "N", "O", "P", "Q", "R", "S", "T", "U", "V", "W", "X", "Y", "Z",
       "a", "b", "c", "d", "e", "f", "g", "h", "i", "j", "k", "l", "m",
       "n", "o", "p", "q", "r", "s", "t", "u", "v", "w", "x", "y", "z",
       "0", "1", "2", "3", "4", "5", "6", "7", "8", "9", "-", "_" >>

B64Char(v) == UrlSafeAlphabet[v + 1]

\* table_a2b_base64 after the URL-safe translation ("-" to "+", "_" to
\* "/"): the 6-bit value of a character, 64 for one outside the alphabet.
B64Value(c) ==
    IF c \in {"+", "-"} THEN 62
    ELSE IF c \in {"/", "_"} THEN 63
    ELSE IF \E v \in 0..61 : UrlSafeAlphabet[v + 1] = c
    THEN CHOOSE v \in 0..61 : UrlSafeAlphabet[v + 1] = c
    ELSE 64

\* urlsafe_b64encode: 3 bytes to 4 characters, "=" padding at the end; the
\* result as ASCII bytes.
RECURSIVE b64e_text(_)
b64e_text(data) ==
    IF data = <<>> THEN <<>>
    ELSE IF Len(data) = 1
    THEN <<B64Char(data[1] \div 4), B64Char((data[1] % 4) * 16), "=", "=">>
    ELSE IF Len(data) = 2
    THEN <<B64Char(data[1] \div 4),
           B64Char(((data[1] % 4) * 16) + (data[2] \div 16)),
           B64Char((data[2] % 16) * 4), "=">>
    ELSE <<B64Char(data[1] \div 4),
           B64Char(((data[1] % 4) * 16) + (data[2] \div 16)),
           B64Char(((data[2] % 16) * 4) + (data[3] \div 64)),
           B64Char(data[3] % 64)>>
         \o b64e_text(SubSeq(data, 4, Len(data)))

b64e(data) == str_encode(b64e_text(data))

\* binascii.a2b_base64, not strict: characters outside the alphabet are
\* skipped, "=" ends the input once it completes a quad, and input that
\* ends inside a quad raises binascii.Error.
RECURSIVE a2b_base64(_, _, _, _, _, _)
a2b_base64(text, i, quad_pos, leftchar, pads, out) ==
    IF i > Len(text)
    THEN (IF quad_pos # 0 THEN Raise("binascii.Error") ELSE Ok(out))
    ELSE IF text[i] = "="
    THEN (IF quad_pos >= 2 /\ quad_pos + pads + 1 >= 4 THEN Ok(out)
          ELSE a2b_base64(text, i + 1, quad_pos, leftchar,
                          IF quad_pos >= 2 THEN pads + 1 ELSE pads, out))
    ELSE IF B64Value(text[i]) >= 64
    THEN a2b_base64(text, i + 1, quad_pos, leftchar, pads, out)
    ELSE LET v == B64Value(text[i]) IN
         CASE quad_pos = 0 -> a2b_base64(text, i + 1, 1, v, 0, out)
           [] quad_pos = 1 ->
                a2b_base64(text, i + 1, 2, v % 16, 0,
                           Append(out, (leftchar * 4) + (v \div 16)))
           [] quad_pos = 2 ->
                a2b_base64(text, i + 1, 3, v % 4, 0,
                           Append(out, (leftchar * 16) + (v \div 4)))
           [] quad_pos = 3 ->
                a2b_base64(text, i + 1, 0, 0, 0,
                           Append(out, (leftchar * 64) + v))

b64d(obscured) == a2b_base64(bytes_decode(obscured), 1, 0, 0, 0, <<>>)

(***************************************************************************)
(* store_creds.py                                                          *)
(***************************************************************************)

\* A slip in encode_pass: the credential stripped of blanks before it is
\* obscured.
encode_pass_stripped(data) ==
    b64e(zlib_compress(str_encode(strip(bytes_decode(data)))))

\* encode_pass(data): compress, then base64.
encode_pass(data) == b64e(zlib_compress(data))

\* decode_pass(obscured): base64-decode, then decompress; the exception of
\* either step propagates.
decode_pass(obscured) ==
    IF b64d(obscured).kind # "ok" THEN b64d(obscured)
    ELSE zlib_decompress(b64d(obscured).data)

\* What a call returns: a value, or the exception that leaves it.
Return(value) == [kind |-> "ok", value |-> value]

Throw(exception) == [kind |-> exception, value |-> <<>>]

\* get_creds as one expression over the file: IOError is caught and gives
\* the empty pair; IndexError (lines[0], lines[1]), binascii.Error and
\* zlib.error (decode_pass) are not caught.
get_creds(file) ==
    IF file.kind # "file" THEN Return(<< <<>>, <<>> >>)
    ELSE LET lines == readlines(file.text) IN
         IF Len(lines) < 1 THEN Throw("IndexError")
         ELSE LET username == decode_pass(str_encode(strip(lines[1]))) IN
              IF username.kind # "ok" THEN Throw(username.kind)
              ELSE IF Len(lines) < 2 THEN Throw("IndexError")
              ELSE LET password == decode_pass(str_encode(strip(lines[2])))
                   IN  IF password.kind # "ok" THEN Throw(password.kind)
                       ELSE Return(<<bytes_decode(username.data),
                                     bytes_decode(password.data)>>)

\* The text store_creds writes: each credential obscured, on its own line.
stored_text(username, password) ==
    bytes_decode(encode_pass(str_encode(username))) \o <<"\n">>
    \o bytes_decode(encode_pass(str_encode(password))) \o <<"\n">>

(***************************************************************************)
(* The inputs of a run, drawn from small sets.                             *)
(***************************************************************************)

\* The longest credential typed at the prompt.
MaxCredLen == 2

\* The most raw devices in the device list.
MaxDevices == 2

\* The most interface records in the answer for one device.
MaxInterfaces == 2

\* The sequences over S of length at most n.
SeqsUpTo(S, n) == UNION {[1..k -> S] : k \in 0..n}

\* Characters typed as credentials: a letter, a space, a punctuation mark.
CredAlphabet == {"u", " ", "~"}

Credentials == SeqsUpTo(CredAlphabet, MaxCredLen)

Absent == [kind |-> "absent", text |-> <<>>]

Unreadable == [kind |-> "unreadable", text |-> <<>>]

File(text) == [kind |-> "file", text |-> text]

\* The obscured form of "admin" (compressed, then base64), with no newline.
ObscuredAdmin ==
    <<"e", "N", "p", "L", "T", "M", "n", "N", "z", "A", "M", "A", "B", "g", "E", "C", "C", "g", "=", "=">>

\* "aGk=": base64 of the two bytes "hi", which are no compressed stream.
NotCompressed == <<"a", "G", "k", "=">>

\* "aGk": base64 with its padding cut off.
BadPadding == <<"a", "G", "k">>

\* Credential files found on disk when the run starts: none, one that
\* cannot be opened, well-formed ones (the second with blanks around its
\* lines), and malformed ones: no line, one line, two blank lines, a line
\* with broken base64 padding, a line that is base64 but not compressed.
CredFiles ==
    { Absent, Unreadable,
      File(ObscuredAdmin \o <<"\n">> \o ObscuredAdmin \o <<"\n">>),
      File(<<" ">> \o ObscuredAdmin \o <<" ", "\n", "\t">> \o ObscuredAdmin),
      File(<<>>),
      File(ObscuredAdmin \o <<"\n">>),
      File(<<"\n", "\n">>),
      File(BadPadding \o <<"\n">> \o ObscuredAdmin \o <<"\n">>),
      File(ObscuredAdmin \o <<"\n">> \o NotCompressed \o <<"\n">>) }

\* How the write of store_creds ends: done; open() fails (IOError, no file
\* made); the write fails after nothing, or after the first line, reached
\* the disk.
StoreOutcomes == {"ok", "open_failed", "failed_empty", "failed_one_line"}

\* Raw device records of the device list.  Two share a system-ip; fields
\* may be missing, and a field outside keys may be present.
RawDeviceA ==
    [f \in {"system-ip", "host-name", "reachability", "version", "site-id",
            "uuid"} |->
        CASE f = "system-ip" -> "1.1.1.1" [] f = "host-name" -> "r1"
          [] f = "reachability" -> "reachable" [] f = "version" -> "20.3"
          [] f = "site-id" -> "100" [] f = "uuid" -> "C1111"]

RawDeviceB ==
    [f \in {"system-ip", "host-name", "reachability"} |->
        CASE f = "system-ip" -> "1.1.1.1" [] f = "host-name" -> "r1b"
          [] f = "reachability" -> "unreachable"]

RawDeviceC ==
    [f \in {"system-ip", "site-id"} |->
        CASE f = "system-ip" -> "2.2.2.2" [] f = "site-id" -> "200"]

RawDevices == {RawDeviceA, RawDeviceB, RawDeviceC}

Interface(ifname, address) == [ifname |-> ifname, ip_address |-> address]

Addr8888 == <<"8", ".", "8", ".", "8", ".", "8">>

Addr10001 == <<"1", "0", ".", "0", ".", "0", ".", "1">>

Addr9999 == <<"9", ".", "9", ".", "9", ".", "9">>

Addr9999Slash24 == <<"9", ".", "9", ".", "9", ".", "9", "/", "2", "4">>

Addr10001Slash7 == <<"1", "0", ".", "0", ".", "0", ".", "1", "/", "7">>

AddrV6 ==
    <<"2", "0", "0", "1", ":", "4", "8", "6", "0", ":", "4", "8", "6", "0", ":", ":", "8", "8", "8", "8">>

\* Interface records of an answer: a public address, a private one, a
\* public one under the ignored name, a public network with host bits under
\* a name used before, an address that is no address at all (empty), an
\* IPv6 address, and a private host address with a prefix shorter than
\* its range.
InterfaceRecords ==
    { Interface("ge0/0", Addr8888),
      Interface("ge0/1", Addr10001),
      Interface("ge0/0.22", Addr9999),
      Interface("ge0/0", Addr9999Slash24),
      Interface("ge0/2", <<>>),
      Interface("ge0/0", AddrV6),
      Interface("ge0/2", Addr10001Slash7) }

\* What a GET can meet: no connection, a non-2xx status, a body that is no
\* JSON, a JSON array, a JSON object without "data", or one with the list.
Responses(lists) ==
    { [kind |-> k, has_data |-> FALSE, data |-> <<>>] :
        k \in {"transport_error", "http_error", "invalid_json", "json_array",
               "json_object"} }
    \cup { [kind |-> "json_object", has_data |-> TRUE, data |-> l] :
             l \in lists }

\* The -i argument: its default (line 29).
IgnoreLists == { {"ge0/0.22"} }

\* The address texts the answers hold.
Addresses == {r.ip_address : r \in InterfaceRecords}

(***************************************************************************)
(* get_vEdgeAddresses.py: dictionaries keep their insertion order, so a    *)
(* dict is its keys in order and the value of each.                        *)
(***************************************************************************)

EmptyDict == [keys |-> <<>>, vals |-> <<>>]

HasKey(d, k) == \E i \in 1..Len(d.keys) : d.keys[i] = k

IndexOf(d, k) == CHOOSE i \in 1..Len(d.keys) : d.keys[i] = k

DictGet(d, k) == d.vals[IndexOf(d, k)]

\* d[k] = v: a new key goes last, a known key keeps its place and takes v.
DictSet(d, k, v) ==
    IF HasKey(d, k) THEN [d EXCEPT !.vals[IndexOf(d, k)] = v]
    ELSE [keys |-> Append(d.keys, k), vals |-> Append(d.vals, v)]

\* main: the column headers retrieved and reported.
keys == <<"system-ip", "host-name", "reachability", "version", "site-id">>

\* is_ipv4(address): ip_network(address, strict=False) raises no ValueError.
is_ipv4(address) == ip_network(address) # ValueError

\* fetch_raw_json on what the GET meets.  A transport error, a non-2xx
\* status (raise_for_status) and a body that is no JSON (requests raises
\* its JSONDecodeError, a RequestException, since 2.27) are caught and give
\* []; response.json().get on a top-level value that is no object raises
\* AttributeError, which is not caught.
fetch_raw_json(response) ==
    CASE response.kind = "transport_error" -> Return(<<>>)
      [] response.kind = "http_error" -> Return(<<>>)
      [] response.kind = "invalid_json" -> Return(<<>>)
      [] response.kind = "json_array" -> Throw("AttributeError")
      [] response.kind = "json_object" ->
            IF response.has_data THEN Return(response.data) ELSE Return(<<>>)

\* device.get(key, "N/A")
GetOr(record, key, default) ==
    IF key \in DOMAIN record THEN record[key] ELSE default

\* {key: device.get(key, "N/A") for key in keys}
device_data(device, ks) ==
    [k \in {ks[i] : i \in 1..Len(ks)} |-> GetOr(device, k, "N/A")]

\* A slip in line 86: a system-ip already in the mapping keeps its record.
RECURSIVE format_device_data_first_wins(_, _)
format_device_data_first_wins(raw, ks) ==
    IF raw = <<>> THEN EmptyDict
    ELSE LET device == raw[Len(raw)]
             before == format_device_data_first_wins(
                           SubSeq(raw, 1, Len(raw) - 1), ks)
         IN  IF HasKey(before, device["system-ip"]) THEN before
             ELSE DictSet(before, device["system-ip"], device_data(device, ks))

\* format_device_data: one entry per system-ip, the last raw device of a
\* system-ip giving its record.
RECURSIVE format_device_data(_, _)
format_device_data(raw, ks) ==
    IF raw = <<>> THEN EmptyDict
    ELSE LET device == raw[Len(raw)] IN
         DictSet(format_device_data(SubSeq(raw, 1, Len(raw) - 1), ks),
                 device["system-ip"], device_data(device, ks))

\* A slip in line 124: a name already in the mapping keeps its address.
record_interface_once(mapping, interface) ==
    IF HasKey(mapping, interface.ifname) THEN mapping
    ELSE DictSet(mapping, interface.ifname, interface.ip_address)

\* Line 124: devices[device]['interfaces'][ifname] = ip-address.
record_interface(mapping, interface) ==
    DictSet(mapping, interface.ifname, interface.ip_address)

\* Line 118 on each address of the inputs, evaluated once.
passes_is_ipv4 == [a \in Addresses |-> is_ipv4(a)]

\* Line 119 on each address that passed line 118, evaluated once.
found_private ==
    [a \in Addresses |-> is_ipv4(a) /\ is_private(ip_network(a))]

\* The body of the loop over the fetched interfaces: skip an ignored name,
\* skip what is_ipv4 rejects, skip a private network, record the rest.
RECURSIVE filter_interfaces(_, _)
filter_interfaces(fetched, ignore) ==
    IF fetched = <<>> THEN EmptyDict
    ELSE LET interface == fetched[Len(fetched)]
             before == filter_interfaces(SubSeq(fetched, 1, Len(fetched) - 1),
                                         ignore)
         IN  IF interface.ifname \in ignore THEN before
             ELSE IF ~passes_is_ipv4[interface.ip_address] THEN before
             ELSE IF found_private[interface.ip_address] THEN before
             ELSE record_interface(before, interface)

(***************************************************************************)
(* The state of a run.                                                     *)
(***************************************************************************)

VARIABLES
    pc,                     \* where main is
    raised,                 \* the exception that ended the run, "" if none
    cred_file,              \* the credential file on disk
    typed,                  \* what was typed at the prompts of store_creds
    auth,                   \* main: (username, password), <<>> before
    ignore_interface_list,  \* main: args.ignore_list
    raw_devices,            \* main: the device list as fetched
    devices,                \* main: system-ip -> record, in insertion order
    deviceNum,              \* add_interface_info: devices handled so far
    interfaces,             \* add_interface_info: the last answer fetched
    response,               \* what the last GET met
    trace,                  \* the GETs sent and the steps taken, in order
    xlsx,                   \* the rows of <output>.xlsx, <<>> if not written
    html                    \* the rows of <output>.html, <<>> if not written

vars == <<pc, raised, cred_file, typed, auth, ignore_interface_list,
          raw_devices, devices, deviceNum, interfaces, response, trace,
          xlsx, html>>

credVars == <<cred_file, typed, auth>>

reportVars == <<ignore_interface_list, raw_devices, devices, deviceNum,
                interfaces, response, trace, xlsx, html>>

\* No GET sent yet.
NoResponse == [kind |-> "none", has_data |-> FALSE, data |-> <<>>]

\* Nothing fetched, nothing written.
ReportsUntouched ==
    /\ raw_devices = <<>>
    /\ devices = EmptyDict
    /\ deviceNum = 0
    /\ interfaces = <<>>
    /\ response = NoResponse
    /\ trace = <<>>
    /\ xlsx = <<>>
    /\ html = <<>>

(***************************************************************************)
(* main, lines 260-267: the credentials.                                   *)
(***************************************************************************)

\* main at line 260, with any credential file on disk.
InitCreds ==
    /\ pc = "creds"
    /\ raised = ""
    /\ cred_file \in CredFiles
    /\ typed = <<>>
    /\ auth = <<>>
    /\ ignore_interface_list = {"ge0/0.22"}
    /\ ReportsUntouched

\* store_creds (line 264, no file yet): prompt, then write both lines.  An
\* IOError is logged and swallowed, whatever reached the disk.
store_creds ==
    /\ pc = "creds"
    /\ cred_file.kind = "absent"
    /\ \E username \in Credentials, password \in Credentials,
          outcome \in StoreOutcomes :
          /\ typed' = <<username, password>>
          /\ cred_file' =
               CASE outcome = "ok" -> File(stored_text(username, password))
                 [] outcome = "open_failed" -> Absent
                 [] outcome = "failed_empty" -> File(<<>>)
                 [] outcome = "failed_one_line" ->
                      File(bytes_decode(encode_pass(str_encode(username)))
                           \o <<"\n">>)
    /\ pc' = "stored"
    /\ UNCHANGED <<raised, auth>>
    /\ UNCHANGED reportVars

\* get_creds (line 262 for a file that exists, line 265 after store_creds)
\* and line 267; an exception get_creds lets through ends the run.
load_creds ==
    /\ \/ pc = "creds" /\ cred_file.kind # "absent"
       \/ pc = "stored"
    /\ LET got == get_creds(cred_file) IN
       IF got.kind = "ok"
       THEN /\ auth' = got.value
            /\ pc' = "fetch_devices"
            /\ raised' = raised
       ELSE /\ auth' = auth
            /\ pc' = "crashed"
            /\ raised' = got.kind
    /\ UNCHANGED <<cred_file, typed>>
    /\ UNCHANGED reportVars

NextCreds == store_creds \/ load_creds

SpecCreds == InitCreds /\ [][NextCreds]_vars

(***************************************************************************)
(* main, lines 268-279: the reports.                                       *)
(***************************************************************************)

\* main at line 272, after load_creds on a credential file that cannot be
\* opened: the credentials are the empty pair.
Init ==
    /\ pc = "fetch_devices"
    /\ raised = ""
    /\ cred_file = Unreadable
    /\ typed = <<>>
    /\ auth = get_creds(cred_file).value
    /\ ignore_interface_list \in IgnoreLists
    /\ ReportsUntouched

Get(url) == [step |-> "GET", url |-> url]

Step(name) == [step |-> name, url |-> ""]

\* Lines 273-275: the device list; no device, no report.
fetch_devices ==
    /\ pc = "fetch_devices"
    /\ \E met \in Responses(SeqsUpTo(RawDevices, MaxDevices)) :
          LET got == fetch_raw_json(met) IN
          /\ response' = met
          /\ trace' = Append(trace, Get("device"))
          /\ IF got.kind # "ok"
             THEN /\ pc' = "crashed"
                  /\ raised' = got.kind
                  /\ raw_devices' = raw_devices
             ELSE /\ raw_devices' = got.value
                  /\ raised' = raised
                  /\ pc' = IF got.value # <<>> THEN "format" ELSE "done"
    /\ UNCHANGED <<devices, deviceNum, interfaces, xlsx, html,
                   ignore_interface_list>>
    /\ UNCHANGED credVars

\* Line 276.
format_devices ==
    /\ pc = "format"
    /\ devices' = format_device_data(raw_devices, keys)
    /\ trace' = Append(trace, Step("format"))
    /\ pc' = "enrich"
    /\ UNCHANGED <<raised, raw_devices, deviceNum, interfaces, response,
                   xlsx, html, ignore_interface_list>>
    /\ UNCHANGED credVars

\* The device record with its 'interfaces' entry set.
WithInterfaces(data, mapping) ==
    [k \in DOMAIN data \cup {"interfaces"} |->
        IF k = "interfaces" THEN mapping ELSE data[k]]

\* A slip in line 104: the devices taken from the last to the first.
NextDeviceReversed(devs, n) == devs.keys[Len(devs.keys) - n]

\* enumerate(devices, 1): the device of the turn after n turns.
NextDevice(devs, n) == devs.keys[n + 1]

\* add_interface_info, one turn of its loop (lines 104-124): the GET for
\* the next device, then the filter over the answer.  An exception of
\* fetch_raw_json leaves the loop, add_interface_info and main.
add_interface_info ==
    /\ pc = "enrich"
    /\ deviceNum < Len(devices.keys)
    /\ LET device == NextDevice(devices, deviceNum) IN
       \E met \in Responses(SeqsUpTo(InterfaceRecords, MaxInterfaces)) :
          LET got == fetch_raw_json(met) IN
          /\ response' = met
          /\ trace' = Append(trace, Get(device))
          /\ IF got.kind # "ok"
             THEN /\ pc' = "crashed"
                  /\ raised' = got.kind
                  /\ UNCHANGED <<devices, deviceNum, interfaces>>
             ELSE /\ interfaces' = got.value
                  /\ devices' =
                       DictSet(devices, device,
                               WithInterfaces(DictGet(devices, device),
                                  filter_interfaces(got.value,
                                                    ignore_interface_list)))
                  /\ deviceNum' = deviceNum + 1
                  /\ raised' = raised
                  /\ pc' = IF deviceNum + 1 = Len(devices.keys)
                           THEN "excel" ELSE "enrich"
    /\ UNCHANGED <<raw_devices, xlsx, html, ignore_interface_list>>
    /\ UNCHANGED credVars

\* data.get('interfaces'): the mapping when it is there and not empty.
HasInterfaces(data) ==
    "interfaces" \in DOMAIN data /\ data["interfaces"].keys # <<>>

\* The header row of both reports.
HeaderRow == keys \o <<"interface-name", "interface-IP">>

\* export_to_excel, one row: a cell per key, then, if the device has
\* interfaces, the cell of names and the cell of addresses, a line each.
excel_row(data, ks) ==
    [i \in 1..Len(ks) |-> GetOr(data, ks[i], "N/A")]
    \o (IF HasInterfaces(data)
        THEN <<data["interfaces"].keys, data["interfaces"].vals>>
        ELSE <<>>)

\* export_to_excel: the header in row 0, then a row per device.
export_to_excel(devs, ks) ==
    <<HeaderRow>> \o [i \in 1..Len(devs.keys) |-> excel_row(devs.vals[i], ks)]

\* The indexes in 1..n, in order, of the devices that have interfaces.
RECURSIVE WithInterfacesUpTo(_, _)
WithInterfacesUpTo(devs, n) ==
    IF n = 0 THEN <<>>
    ELSE IF HasInterfaces(devs.vals[n])
    THEN Append(WithInterfacesUpTo(devs, n - 1), n)
    ELSE WithInterfacesUpTo(devs, n - 1)

\* export_to_html, one row: as in the spreadsheet, the lines joined by <br>.
html_row(data, ks) ==
    [i \in 1..Len(ks) |-> GetOr(data, ks[i], "N/A")]
    \o <<data["interfaces"].keys, data["interfaces"].vals>>

\* A slip in line 206: a row for every device, as in the spreadsheet.
export_to_html_every_device(devs, ks) ==
    <<HeaderRow>> \o [i \in 1..Len(devs.keys) |-> html_row(devs.vals[i], ks)]

\* export_to_html: the header, then a row per device that has interfaces.
export_to_html(devs, ks) ==
    LET shown == WithInterfacesUpTo(devs, Len(devs.keys)) IN
    <<HeaderRow>> \o [i \in 1..Len(shown) |-> html_row(devs.vals[shown[i]], ks)]

\* Line 278.
write_excel ==
    /\ pc = "excel"
    /\ xlsx' = export_to_excel(devices, keys)
    /\ trace' = Append(trace, Step("xlsx"))
    /\ pc' = "html"
    /\ UNCHANGED <<raised, raw_devices, devices, deviceNum, interfaces,
                   response, html, ignore_interface_list>>
    /\ UNCHANGED credVars

\* Line 279.
write_html ==
    /\ pc = "html"
    /\ html' = export_to_html(devices, keys)
    /\ trace' = Append(trace, Step("html"))
    /\ pc' = "done"
    /\ UNCHANGED <<raised, raw_devices, devices, deviceNum, interfaces,
                   response, xlsx, ignore_interface_list>>
    /\ UNCHANGED credVars

Next ==
    \/ fetch_devices
    \/ format_devices
    \/ add_interface_info
    \/ write_excel
    \/ write_html

Spec == Init /\ [][Next]_vars
(***************************************************************************)
(* The properties checked.                                                 *)
(***************************************************************************)

\* The devices add_interface_info has handled: those with an 'interfaces'
\* entry.
Handled == {i \in 1..Len(devices.keys) : "interfaces" \in DOMAIN devices.vals[i]}

InterfacesOf(i) == devices.vals[i]["interfaces"]

\* The text is an IPv4 address or network (IPv4Network accepts it).
ValidIPv4 == [a \in Addresses |-> IPv4Network(a) # ValueError]

\* The host address of the text (the part before "/") lies in a private
\* IPv4 range.
InPrivateRange ==
    [a \in Addresses |->
        /\ IPv4Network(a) # ValueError
        /\ \E priv \in private_networks_v4 :
              InNetwork(v4_from_string(split(a, "/")[1]), priv)]

\* C1: the 'interfaces' mapping of every handled device holds no ignored
\* name, no value that is not a valid IPv4 address or network (an IPv6
\* address is not one), and no address of a private range.
C1_OnlyPublicIPv4Kept ==
    \A i \in Handled :
        \A n \in 1..Len(InterfacesOf(i).keys) :
            /\ InterfacesOf(i).keys[n] \notin ignore_interface_list
            /\ ValidIPv4[InterfacesOf(i).vals[n]]
            /\ ~InPrivateRange[InterfacesOf(i).vals[n]]

\* The record is not ignored and carries a valid public IPv4 address.
PublicRecord(r) ==
    /\ r.ifname \notin ignore_interface_list
    /\ ValidIPv4[r.ip_address]
    /\ ~InPrivateRange[r.ip_address]

\* The record is one the loop of add_interface_info records (lines 115-124).
Recorded(r) ==
    /\ r.ifname \notin ignore_interface_list
    /\ passes_is_ipv4[r.ip_address]
    /\ ~found_private[r.ip_address]

\* The answer in `interfaces` is that of the device handled last.
LastHandled == deviceNum

\* C2 as claimed: every fetched record with a name not ignored and a valid
\* public IPv4 address is in the device's mapping, its address under its
\* name, also when several records carry one name.
C2_EveryPublicRecordKept ==
    deviceNum >= 1 =>
        \A n \in 1..Len(interfaces) :
            PublicRecord(interfaces[n]) =>
                /\ HasKey(InterfacesOf(LastHandled), interfaces[n].ifname)
                /\ DictGet(InterfacesOf(LastHandled), interfaces[n].ifname)
                     = interfaces[n].ip_address

\* C2 amended: every such record has an entry under its name, and the
\* entry holds its address unless a later record of the same answer with
\* the same name was recorded too (the mapping holds a name once, and the
\* last record recorded under it wins).
C2_LastPublicRecordKept ==
    deviceNum >= 1 =>
        \A n \in 1..Len(interfaces) :
            PublicRecord(interfaces[n]) =>
                /\ HasKey(InterfacesOf(LastHandled), interfaces[n].ifname)
                /\ \/ \E m \in (n + 1)..Len(interfaces) :
                         /\ interfaces[m].ifname = interfaces[n].ifname
                         /\ Recorded(interfaces[m])
                   \/ DictGet(InterfacesOf(LastHandled), interfaces[n].ifname)
                        = interfaces[n].ip_address

\* C2 witness: an answer with two public records under one name, handled;
\* the name is in the mapping once, with the address of the second.
C2_Witness ==
    /\ deviceNum >= 1
    /\ interfaces = <<Interface("ge0/0", Addr8888),
                      Interface("ge0/0", Addr9999Slash24)>>
    /\ InterfacesOf(LastHandled) =
         [keys |-> <<"ge0/0">>, vals |-> <<Addr9999Slash24>>]

\* What fetch_raw_json is to return for a response: the list under "data"
\* of a JSON object, else the empty list.
ListOf(met) ==
    IF met.kind = "json_object" /\ met.has_data THEN met.data ELSE <<>>

\* C3: whatever a GET meets, no exception leaves fetch_raw_json, and the
\* caller holds the list under "data", or the empty list.
C3_FetchNeverPropagates ==
    response # NoResponse =>
        /\ raised = ""
        /\ IF deviceNum = 0 THEN raw_devices = ListOf(response)
           ELSE interfaces = ListOf(response)

\* The credential file cannot be read, or is malformed: fewer than two
\* lines, or one of the first two is not valid base64 or does not hold a
\* valid compressed stream.
Unusable(file) ==
    \/ file.kind # "file"
    \/ Len(readlines(file.text)) < 2
    \/ \E n \in 1..2 :
          decode_pass(str_encode(strip(readlines(file.text)[n]))).kind # "ok"

\* C4: get_creds on an unreadable or malformed credential file raises
\* nothing and returns the pair of empty strings; the run goes on.
C4_UnusableFileGivesEmptyPair ==
    (pc \in {"fetch_devices", "crashed"} /\ Unusable(cred_file)) =>
        (pc = "fetch_devices" /\ auth = << <<>>, <<>> >>)

\* The data rows of a report (all but the header).
DataRows(report) == SubSeq(report, 2, Len(report))

\* C5: the spreadsheet has one data row per device, in the order of the
\* mapping, with its interface cells only when the device has interfaces;
\* the HTML report has a data row for exactly the devices that have
\* interfaces, in the same order.
C5_ReportRows ==
    /\ xlsx # <<>> =>
          /\ Len(DataRows(xlsx)) = Len(devices.keys)
          /\ \A i \in 1..Len(devices.keys) :
                /\ DataRows(xlsx)[i][1] = devices.keys[i]
                /\ Len(DataRows(xlsx)[i]) =
                     IF InterfacesOf(i).keys # <<>> THEN Len(keys) + 2
                     ELSE Len(keys)
    /\ html # <<>> =>
          /\ \A i \in 1..Len(devices.keys) :
                (\E n \in 1..Len(DataRows(html)) :
                    DataRows(html)[n][1] = devices.keys[i])
                <=> InterfacesOf(i).keys # <<>>
          /\ Len(DataRows(html)) =
               Cardinality({i \in 1..Len(devices.keys) :
                              InterfacesOf(i).keys # <<>>})
          /\ \A n, m \in 1..Len(DataRows(html)) :
                n < m =>
                    \E i, j \in 1..Len(devices.keys) :
                        /\ i < j
                        /\ DataRows(html)[n][1] = devices.keys[i]
                        /\ DataRows(html)[m][1] = devices.keys[j]

\* C5 witness: both reports written for two devices, the first without a
\* surviving interface: two data rows in the spreadsheet, one in the HTML.
C5_Witness ==
    /\ pc = "done"
    /\ Len(devices.keys) = 2
    /\ InterfacesOf(1).keys = <<>>
    /\ InterfacesOf(2).keys # <<>>
    /\ Len(DataRows(xlsx)) = 2
    /\ Len(DataRows(html)) = 1

\* C6: decode_pass undoes encode_pass on every credential typed, and
\* get_creds after a store_creds that wrote both lines returns the pair
\* typed.
C6_RoundTrip ==
    typed # <<>> =>
        /\ \A n \in 1..2 :
              decode_pass(encode_pass(str_encode(typed[n])))
                = Ok(str_encode(typed[n]))
        /\ (cred_file = File(stored_text(typed[1], typed[2])) /\ pc # "stored")
              => (pc = "fetch_devices" /\ auth = typed)

\* C6 witness: a username with a leading blank and an empty password,
\* stored and read back.
C6_Witness ==
    /\ pc = "fetch_devices"
    /\ typed = << <<" ", "u">>, <<>> >>
    /\ cred_file = File(stored_text(typed[1], typed[2]))
    /\ auth = typed

\* C7: add_interface_info raises nothing whatever the fetches meet, and
\* when it is over every device has an 'interfaces' mapping.
C7_EnrichIsTotal ==
    /\ pc = "crashed" => devices = EmptyDict
    /\ pc \in {"excel", "html", "done"} => Handled = 1..Len(devices.keys)

\* The last raw device with the system-ip.
LastRaw(system_ip) ==
    raw_devices[CHOOSE j \in 1..Len(raw_devices) :
                   /\ raw_devices[j]["system-ip"] = system_ip
                   /\ \A l \in (j + 1)..Len(raw_devices) :
                         raw_devices[l]["system-ip"] # system_ip]

KeySet == {keys[n] : n \in 1..Len(keys)}

\* C8: once formatted, the mapping has one record per distinct system-ip of
\* the raw devices; a record holds exactly the requested keys, each with
\* the value of the last raw device of that system-ip, or "N/A".
C8_FormatDeviceData ==
    Len(trace) >= 2 =>
        /\ {devices.keys[i] : i \in 1..Len(devices.keys)}
             = {raw_devices[j]["system-ip"] : j \in 1..Len(raw_devices)}
        /\ \A i, j \in 1..Len(devices.keys) :
              devices.keys[i] = devices.keys[j] => i = j
        /\ \A i \in 1..Len(devices.keys) :
              /\ DOMAIN devices.vals[i] \ {"interfaces"} = KeySet
              /\ \A k \in KeySet :
                    devices.vals[i][k] =
                      IF k \in DOMAIN LastRaw(devices.keys[i])
                      THEN LastRaw(devices.keys[i])[k] ELSE "N/A"

\* C8 witness: two raw devices with one system-ip; the record is that of
\* the second, with "N/A" for the field it lacks.
C8_Witness ==
    /\ raw_devices = <<RawDeviceA, RawDeviceB>>
    /\ devices.keys = <<"1.1.1.1">>
    /\ devices.vals[1]["host-name"] = "r1b"
    /\ devices.vals[1]["version"] = "N/A"

\* The steps of a complete run over the devices of the mapping.
FullTrace ==
    <<Get("device"), Step("format")>>
    \o [i \in 1..Len(devices.keys) |-> Get(devices.keys[i])]
    \o <<Step("xlsx"), Step("html")>>

\* C9: what a run has done is always the beginning of: the device-list
\* GET, format, one interface GET per device in the order of the mapping,
\* the spreadsheet, the HTML; a report is on disk only after its step, and
\* the spreadsheet only after the last interface GET.
C9_LinearOrder ==
    /\ Len(trace) <= Len(FullTrace)
    /\ \A n \in 1..Len(trace) : trace[n] = FullTrace[n]
    /\ xlsx # <<>> <=> Len(trace) >= Len(devices.keys) + 3
    /\ html # <<>> <=> Len(trace) = Len(devices.keys) + 4
    /\ xlsx # <<>> => deviceNum = Len(devices.keys)

\* C9 witness: a complete run over two devices.
C9_Witness ==
    /\ pc = "done"
    /\ Len(devices.keys) = 2
    /\ Len(trace) = 6
    /\ html # <<>>

\* C10: a run that is over has written both reports exactly when the
\* device list held a device, and has sent no interface GET when it held
\* none.
C10_ReportsIffDevices ==
    pc \in {"done", "crashed"} =>
        /\ (xlsx # <<>> /\ html # <<>>) <=> raw_devices # <<>>
        /\ raw_devices = <<>> => trace = <<Get("device")>>
=============================================================================
